---- MODULE Spec2Model ----
(***************************************************************************)
(* Model of the Coveralls repository service (package coveralls):          *)
(* RepositoryServiceImpl.Get / Add / Update, the error values they return, *)
(* the JSON encoding of RepositoryConfig and the JSON decoding of          *)
(* Repository / RepositoryConfig, and the Client they share.               *)
(*                                                                         *)
(* Text is modelled as a sequence of tokens: a response or request body is *)
(* a sequence of words and JSON tokens, so that strings.Contains is a real *)
(* sub-sequence search and json encoding/decoding are real conversions     *)
(* between token sequences and Go struct values.                           *)
(***************************************************************************)
EXTENDS Integers, Sequences, FiniteSets, TLC

(* ------------------------------ bounds --------------------------------- *)

\* Number of goroutines that use the same *Client concurrently.
NumCallers == 2
\* Longest plain-text response body, in words.
MaxBodyLen == 5
\* Largest number used for a coverage threshold or an id.
MaxThreshold == 1

Callers == 1..NumCallers

(* ------------------------- net/http status codes ----------------------- *)

StatusOK == 200
StatusCreated == 201
StatusNotFound == 404
StatusUnprocessableEntity == 422
StatusInternalServerError == 500

\* The status codes a server answers with in this model.
StatusCodes ==
  {StatusOK, StatusCreated, StatusNotFound, StatusUnprocessableEntity,
   StatusInternalServerError}

(* ----------------------------- Go values -------------------------------- *)

\* A Go pointer (or interface value) is <<>> when nil and <<v>> when it
\* points to v.
Nil == <<>>
Ptr(v) == <<v>>

Numbers == 0..MaxThreshold

(* ------------------------------- errors --------------------------------- *)

ErrRepoNotFound == [type |-> "ErrRepoNotFound"]

ErrNameIsTaken == [type |-> "ErrNameIsTaken"]

newErrUnprocessableEntity(errorBody) ==
  [type |-> "ErrUnprocessableEntity", ErrorBody |-> errorBody]

\* Mutant: the error does not keep the body.
newErrUnexpectedStatusCodeWithoutBody(c, b) ==
  [type |-> "ErrUnexpectedStatusCode", StatusCode |-> c, ErrorBody |-> <<>>]

newErrUnexpectedStatusCode(c, b) ==
  [type |-> "ErrUnexpectedStatusCode", StatusCode |-> c, ErrorBody |-> b]

\* Errors of the transport itself: no response was obtained.
TransportError(msg) == [type |-> "transport", msg |-> msg]

TransportFailures ==
  {TransportError("connection refused"), TransportError("context canceled")}

MalformedResponse == TransportError("invalid character in response body")

(* -------------------------------- text ---------------------------------- *)

\* Mutant: the text is looked for at the start only.
ContainsAtStart(s, substr) ==
  Len(substr) <= Len(s) /\ SubSeq(s, 1, Len(substr)) = substr

\* strings.Contains(s, substr)
Contains(s, substr) ==
  \E i \in 0..(Len(s) - Len(substr)) :
    SubSeq(s, i + 1, i + Len(substr)) = substr

\* The text Add looks for in a 422 body: "has already been taken".
NameTakenMarker == <<"has", "already", "been", "taken">>

\* The words of plain-text bodies.
Words == {"Name", "has", "already", "been", "taken"}

RECURSIVE SeqsUpTo(_, _)
SeqsUpTo(S, n) ==
  IF n = 0 THEN {<<>>}
  ELSE LET shorter == SeqsUpTo(S, n - 1)
       IN  shorter \cup {Append(s, x) : s \in {t \in shorter : Len(t) = n - 1}, x \in S}

TextBodies == SeqsUpTo(Words, MaxBodyLen)

(* ----------------------------- JSON tokens ------------------------------ *)

Digits == <<"0", "1", "2", "3", "4", "5", "6", "7", "8", "9">>

NumTok(n) == Digits[n + 1]
NumToks == {Digits[i] : i \in 1..Len(Digits)}
ParseNum(tok) == CHOOSE n \in 0..(Len(Digits) - 1) : Digits[n + 1] = tok

BoolTok(b) == IF b THEN "true" ELSE "false"
BoolToks == {"true", "false"}

IsStringTok(tok) == tok \notin ({"{", "}", "null"} \cup BoolToks \cup NumToks)
IsValueTok(tok) == tok \notin {"{", "}"}

(* ------------------------------ the structs ----------------------------- *)

\* One entry per struct field: its Go name, its json key, its Go type and
\* whether its tag says omitempty.
Field(go, key, kind, omitempty) ==
  [go |-> go, key |-> key, kind |-> kind, omitempty |-> omitempty]

Repository ==
  << Field("ID", "id", "int", TRUE),
     Field("Name", "name", "string", TRUE),
     Field("Service", "service", "string", TRUE),
     Field("CommentOnPullRequests", "comment_on_pull_requests", "*bool", TRUE),
     Field("SendBuildStatus", "send_build_status", "*bool", TRUE),
     Field("CommitStatusFailThreshold", "commit_status_fail_threshold", "*float64", TRUE),
     Field("CommitStatusFailChangeThreshold", "commit_status_fail_change_threshold", "*float64", TRUE),
     Field("HasBadge", "has_badge", "bool", TRUE),
     Field("Token", "token", "string", TRUE),
     Field("CreatedAt", "created_at", "string", TRUE),
     Field("UpdatedAt", "updated_at", "string", TRUE) >>

RepositoryConfig ==
  << Field("Service", "service", "string", FALSE),
     Field("Name", "name", "string", FALSE),
     Field("CommentOnPullRequests", "comment_on_pull_requests", "*bool", TRUE),
     Field("SendBuildStatus", "send_build_status", "*bool", TRUE),
     Field("CommitStatusFailThreshold", "commit_status_fail_threshold", "*float64", TRUE),
     Field("CommitStatusFailChangeThreshold", "commit_status_fail_change_threshold", "*float64", TRUE) >>

StructOf(name) == IF name = "Repository" THEN Repository ELSE RepositoryConfig

GoNames(fields) == {fields[i].go : i \in 1..Len(fields)}
FieldOf(fields, go) == fields[CHOOSE i \in 1..Len(fields) : fields[i].go = go]

\* The zero value of a Go type.
ZeroValue(kind) ==
  CASE kind = "string" -> ""
    [] kind = "int" -> 0
    [] kind = "bool" -> FALSE
    [] OTHER -> Nil

\* &Repository{} and &RepositoryConfig{}: every field has its zero value.
ZeroStruct(fields) ==
  [go \in GoNames(fields) |-> ZeroValue(FieldOf(fields, go).kind)]

(* --------------------------- encoding/json ------------------------------ *)

\* omitempty: false, 0, a nil pointer and the empty string are "empty".
IsEmptyValue(kind, v) == v = ZeroValue(kind)

\* The JSON token of a non-nil field value.
EncodeValue(kind, v) ==
  CASE kind = "string" -> v
    [] kind = "int" -> NumTok(v)
    [] kind = "bool" -> BoolTok(v)
    [] kind = "*bool" -> IF v = Nil THEN "null" ELSE BoolTok(v[1])
    [] kind = "*float64" -> IF v = Nil THEN "null" ELSE NumTok(v[1])

\* Mutant: omitempty is not honoured, a nil pointer is sent as null.
MarshalFieldAlways(f, v) == <<f.key, EncodeValue(f.kind, v)>>

\* The key and value of one field, or nothing when the field is omitted.
MarshalField(f, v) ==
  IF f.omitempty /\ IsEmptyValue(f.kind, v) THEN <<>>
  ELSE <<f.key, EncodeValue(f.kind, v)>>

RECURSIVE MarshalFields(_, _, _)
MarshalFields(fields, v, i) ==
  IF i > Len(fields) THEN <<>>
  ELSE MarshalField(fields[i], v[fields[i].go]) \o MarshalFields(fields, v, i + 1)

\* json.Marshal of a struct value: its fields in declaration order.
Marshal(fields, v) == <<"{">> \o MarshalFields(fields, v, 1) \o <<"}">>

\* json.Marshal of map[string]*RepositoryConfig{"repo": data}.
MarshalRepoBody(data) ==
  <<"{", "repo">>
    \o (IF data = Nil THEN <<"null">> ELSE Marshal(RepositoryConfig, data[1]))
    \o <<"}">>

\* The positions of the keys of a flat JSON object held in tokens t.
KeyPositions(t) == {i \in 2..(Len(t) - 2) : i % 2 = 0}

\* t is one flat JSON object: { key value key value ... }.
IsObject(t) ==
  /\ Len(t) >= 2
  /\ t[1] = "{"
  /\ t[Len(t)] = "}"
  /\ Len(t) % 2 = 0
  /\ \A i \in KeyPositions(t) : IsStringTok(t[i]) /\ IsValueTok(t[i + 1])

HasKey(t, key) == \E i \in KeyPositions(t) : t[i] = key

\* The value of key in t; the last one wins when a key is repeated.
ValueOf(t, key) ==
  LET last == CHOOSE i \in KeyPositions(t) :
                /\ t[i] = key
                /\ \A j \in KeyPositions(t) : t[j] = key => j <= i
  IN  t[last + 1]

\* A JSON value can be stored in a field of this Go type.
Assignable(kind, tok) ==
  \/ tok = "null"
  \/ kind = "string" /\ IsStringTok(tok)
  \/ kind \in {"int", "*float64"} /\ tok \in NumToks
  \/ kind \in {"bool", "*bool"} /\ tok \in BoolToks

\* Mutant: false and 0 are not told from a missing member.
DecodeValueLosingZero(kind, tok, old) ==
  CASE tok = "null" -> IF kind \in {"*bool", "*float64"} THEN Nil ELSE old
    [] tok # "null" /\ kind = "string" -> tok
    [] tok # "null" /\ kind = "int" -> ParseNum(tok)
    [] tok # "null" /\ kind = "bool" -> tok = "true"
    [] tok # "null" /\ kind = "*bool" -> IF tok = "true" THEN Ptr(TRUE) ELSE Nil
    [] tok # "null" /\ kind = "*float64" -> IF tok = "0" THEN Nil ELSE Ptr(ParseNum(tok))

\* The field value a JSON value decodes to. null leaves a plain field as it
\* is and makes a pointer nil.
DecodeValue(kind, tok, old) ==
  CASE tok = "null" -> IF kind \in {"*bool", "*float64"} THEN Nil ELSE old
    [] tok # "null" /\ kind = "string" -> tok
    [] tok # "null" /\ kind = "int" -> ParseNum(tok)
    [] tok # "null" /\ kind = "bool" -> tok = "true"
    [] tok # "null" /\ kind = "*bool" -> Ptr(tok = "true")
    [] tok # "null" /\ kind = "*float64" -> Ptr(ParseNum(tok))

\* json.Unmarshal(t, &v) for a struct value v: keys that name no field are
\* skipped, fields whose key is missing keep their value.
UnmarshalOK(fields, t) ==
  /\ IsObject(t)
  /\ \A i \in 1..Len(fields) :
       HasKey(t, fields[i].key) => Assignable(fields[i].kind, ValueOf(t, fields[i].key))

Unmarshal(fields, t, v) ==
  [go \in GoNames(fields) |->
     LET f == FieldOf(fields, go)
     IN  IF HasKey(t, f.key) THEN DecodeValue(f.kind, ValueOf(t, f.key), v[go])
         ELSE v[go]]

(* ------------------------------- state ---------------------------------- *)

VARIABLES
  client,    \* the *Client made by NewClient: HostURL and the resty headers
  pc,        \* pc[c]: "idle", "sent" (blocked in the HTTP request) or "done"
  call,      \* call[c]: the operation caller c is in, and its arguments
  requests,  \* requests[c]: the HTTP requests issued by c's current call
  resp,      \* resp[c]: what the transport gave c's current call (resp, err)
  ret        \* ret[c]: what c's current call returned (value, error)

vars == <<client, pc, call, requests, resp, ret>>

defaultHostURL == "https://coveralls.io"

\* NewClient(t)
NewClient(t) ==
  [HostURL |-> defaultHostURL,
   Header |-> [Accept |-> "application/json", Authorization |-> <<"token", t>>]]

NoCall == [op |-> "none"]
NoResp == [err |-> Nil, filled |-> FALSE]
NoRet == [returned |-> FALSE]

Init ==
  /\ client = NewClient("secret")
  /\ pc = [c \in Callers |-> "idle"]
  /\ call = [c \in Callers |-> NoCall]
  /\ requests = [c \in Callers |-> <<>>]
  /\ resp = [c \in Callers |-> NoResp]
  /\ ret = [c \in Callers |-> NoRet]

(* ----------------------------- the transport ---------------------------- *)

JSONType == "application/json"
PlainType == "text/plain"

\* What a server sends back.
ServerResponse(status, ct, body) ==
  [StatusCode |-> status, ContentType |-> ct, Body |-> body]

\* resp, err of Request.Get / Post / Put when the exchange took place: the
\* value given to SetResult is filled from a 2xx JSON body, and a 2xx JSON
\* body that cannot be decoded into it is an error.
Execute(request, r) ==
  LET fields == StructOf(request.Result)
      zero   == ZeroStruct(fields)
      decode == r.ContentType = JSONType /\ r.StatusCode >= 200 /\ r.StatusCode <= 299
  IN  IF decode /\ ~UnmarshalOK(fields, r.Body)
      THEN [err |-> Ptr(MalformedResponse), filled |-> TRUE]
      ELSE [err |-> Nil, filled |-> TRUE,
            StatusCode |-> r.StatusCode,
            ContentType |-> r.ContentType,
            Body |-> r.Body,
            Result |-> IF decode THEN Unmarshal(fields, r.Body, zero) ELSE zero]

\* resp, err when the exchange failed.
Failed(e) == [err |-> Ptr(e), filled |-> TRUE]

\* Every outcome of a request, for the server responses in Responses.
Outcomes(request, Responses) ==
  {Failed(e) : e \in TransportFailures} \cup {Execute(request, r) : r \in Responses}

(* ---------------------- RepositoryServiceImpl ---------------------------- *)

Return(val, err) == [returned |-> TRUE, val |-> val, err |-> err]

\* Mutant: an unexpected status returns the record along with the error.
GetSwitchWithRecord(r) ==
  IF r.err # Nil THEN Return(Nil, r.err)
  ELSE CASE r.StatusCode = StatusOK -> Return(Ptr(r.Result), Nil)
         [] r.StatusCode = StatusNotFound -> Return(Nil, Ptr(ErrRepoNotFound))
         [] OTHER -> Return(Ptr(r.Result),
                            Ptr(newErrUnexpectedStatusCode(r.StatusCode, r.Body)))

\* Get, from "if err != nil" on.
GetSwitch(r) ==
  IF r.err # Nil THEN Return(Nil, r.err)
  ELSE CASE r.StatusCode = StatusOK -> Return(Ptr(r.Result), Nil)
         [] r.StatusCode = StatusNotFound -> Return(Nil, Ptr(ErrRepoNotFound))
         [] OTHER -> Return(Nil, Ptr(newErrUnexpectedStatusCode(r.StatusCode, r.Body)))

\* Mutant: the transport's error is wrapped.
AddSwitchWrapping(r) ==
  IF r.err # Nil THEN Return(Nil, Ptr([type |-> "wrapped", cause |-> r.err[1]]))
  ELSE CASE r.StatusCode = StatusCreated -> Return(Ptr(r.Result), Nil)
         [] r.StatusCode = StatusUnprocessableEntity ->
              IF Contains(r.Body, NameTakenMarker)
              THEN Return(Nil, Ptr(ErrNameIsTaken))
              ELSE Return(Nil, Ptr(newErrUnprocessableEntity(r.Body)))
         [] OTHER -> Return(Nil, Ptr(newErrUnexpectedStatusCode(r.StatusCode, r.Body)))

\* Add, from "if err != nil" on.
AddSwitch(r) ==
  IF r.err # Nil THEN Return(Nil, r.err)
  ELSE CASE r.StatusCode = StatusCreated -> Return(Ptr(r.Result), Nil)
         [] r.StatusCode = StatusUnprocessableEntity ->
              IF Contains(r.Body, NameTakenMarker)
              THEN Return(Nil, Ptr(ErrNameIsTaken))
              ELSE Return(Nil, Ptr(newErrUnprocessableEntity(r.Body)))
         [] OTHER -> Return(Nil, Ptr(newErrUnexpectedStatusCode(r.StatusCode, r.Body)))

\* Mutant: 404 has no case of its own.
UpdateSwitchWithoutNotFound(r) ==
  IF r.err # Nil THEN Return(Nil, r.err)
  ELSE CASE r.StatusCode = StatusOK -> Return(Ptr(r.Result), Nil)
         [] r.StatusCode = StatusUnprocessableEntity ->
              Return(Nil, Ptr(newErrUnprocessableEntity(r.Body)))
         [] OTHER -> Return(Nil, Ptr(newErrUnexpectedStatusCode(r.StatusCode, r.Body)))

\* Mutant: 422 is refined as Add refines it.
UpdateSwitchRefining(r) ==
  IF r.err # Nil THEN Return(Nil, r.err)
  ELSE CASE r.StatusCode = StatusOK -> Return(Ptr(r.Result), Nil)
         [] r.StatusCode = StatusNotFound -> Return(Nil, Ptr(ErrRepoNotFound))
         [] r.StatusCode = StatusUnprocessableEntity ->
              IF Contains(r.Body, NameTakenMarker)
              THEN Return(Nil, Ptr(ErrNameIsTaken))
              ELSE Return(Nil, Ptr(newErrUnprocessableEntity(r.Body)))
         [] OTHER -> Return(Nil, Ptr(newErrUnexpectedStatusCode(r.StatusCode, r.Body)))

\* Update, from "if err != nil" on.
UpdateSwitch(r) ==
  IF r.err # Nil THEN Return(Nil, r.err)
  ELSE CASE r.StatusCode = StatusOK -> Return(Ptr(r.Result), Nil)
         [] r.StatusCode = StatusNotFound -> Return(Nil, Ptr(ErrRepoNotFound))
         [] r.StatusCode = StatusUnprocessableEntity ->
              Return(Nil, Ptr(newErrUnprocessableEntity(r.Body)))
         [] OTHER -> Return(Nil, Ptr(newErrUnexpectedStatusCode(r.StatusCode, r.Body)))

\* fmt.Sprintf("%s/api/repos/%s/%s", s.client.HostURL, svc, repo)
RepoURL(host, svc, repo) == <<host, "/api/repos/", svc, "/", repo>>

\* fmt.Sprintf("%s/api/repos", s.client.HostURL)
ReposURL(host) == <<host, "/api/repos">>

\* s.client.client.R().SetBody(body).SetResult(result): a new request that
\* carries the client's headers.
NewRequest(method, url, body, result) ==
  [Method |-> method, URL |-> url, Header |-> client.Header,
   Body |-> body, Result |-> result]

\* Caller c enters an operation and blocks in its HTTP request.
Issue(c, theCall, request) ==
  /\ pc[c] = "idle"
  /\ pc' = [pc EXCEPT ![c] = "sent"]
  /\ call' = [call EXCEPT ![c] = theCall]
  /\ requests' = [requests EXCEPT ![c] = <<request>>]
  /\ UNCHANGED <<client, resp, ret>>

\* Mutant: the record of every call is the one record kept in the client, so
\* a return overwrites what the callers that have returned hold.
FinishInSharedRecord(c, r, result) ==
  /\ pc' = [pc EXCEPT ![c] = "done"]
  /\ resp' = [resp EXCEPT ![c] = r]
  /\ ret' = [d \in Callers |-> IF d = c \/ pc[d] = "done" THEN result ELSE ret[d]]
  /\ UNCHANGED <<client, call, requests>>

\* The request of c's call returns r and the call returns.
Finish(c, r, result) ==
  /\ pc' = [pc EXCEPT ![c] = "done"]
  /\ resp' = [resp EXCEPT ![c] = r]
  /\ ret' = [ret EXCEPT ![c] = result]
  /\ UNCHANGED <<client, call, requests>>

\* The caller has taken what its call returned and may call again.
Resume(c) ==
  /\ pc[c] = "done"
  /\ pc' = [pc EXCEPT ![c] = "idle"]
  /\ call' = [call EXCEPT ![c] = NoCall]
  /\ requests' = [requests EXCEPT ![c] = <<>>]
  /\ resp' = [resp EXCEPT ![c] = NoResp]
  /\ ret' = [ret EXCEPT ![c] = NoRet]
  /\ UNCHANGED client

\* Get up to the request.
Get(c, Svcs, Names) ==
  \E svc \in Svcs, repo \in Names :
    Issue(c, [op |-> "Get", svc |-> svc, repo |-> repo],
          NewRequest("GET", RepoURL(client.HostURL, svc, repo), Nil, "Repository"))

\* Add up to the request.
Add(c, Datas) ==
  \E data \in Datas :
    Issue(c, [op |-> "Add", data |-> data],
          NewRequest("POST", ReposURL(client.HostURL), MarshalRepoBody(data),
                     "RepositoryConfig"))

\* Update up to the request.
Update(c, Svcs, Names, Datas) ==
  \E svc \in Svcs, repo \in Names, data \in Datas :
    Issue(c, [op |-> "Update", svc |-> svc, repo |-> repo, data |-> data],
          NewRequest("PUT", RepoURL(client.HostURL, svc, repo), MarshalRepoBody(data),
                     "RepositoryConfig"))

\* Mutant: a failed request is issued once more.
GetReturnRetrying(c, Responses) ==
  /\ pc[c] = "sent"
  /\ call[c].op = "Get"
  /\ \E r \in Outcomes(requests[c][Len(requests[c])], Responses) :
       IF r.err # Nil /\ Len(requests[c]) < 2
       THEN /\ requests' = [requests EXCEPT ![c] = Append(@, @[1])]
            /\ UNCHANGED <<client, pc, call, resp, ret>>
       ELSE Finish(c, r, GetSwitch(r))

\* The request of a Get returns and Get returns.
GetReturn(c, Responses) ==
  /\ pc[c] = "sent"
  /\ call[c].op = "Get"
  /\ \E r \in Outcomes(requests[c][Len(requests[c])], Responses) :
       Finish(c, r, GetSwitch(r))

AddReturn(c, Responses) ==
  /\ pc[c] = "sent"
  /\ call[c].op = "Add"
  /\ \E r \in Outcomes(requests[c][Len(requests[c])], Responses) :
       Finish(c, r, AddSwitch(r))

UpdateReturn(c, Responses) ==
  /\ pc[c] = "sent"
  /\ call[c].op = "Update"
  /\ \E r \in Outcomes(requests[c][Len(requests[c])], Responses) :
       Finish(c, r, UpdateSwitch(r))

(* ------------- RepositoryServiceImpl, the sentinel-only version --------- *)

\* The sentinel errors of repositories.go. Its ErrRepoNotFound is the one of
\* the later version.
ErrUnprocessableEntity == [type |-> "ErrUnprocessableEntity"]

ErrUnexpectedStatusCode == [type |-> "ErrUnexpectedStatusCode"]

\* fmt.Errorf("status code %d: %w", resp.StatusCode(), ErrUnexpectedStatusCode)
WrapUnexpectedStatusCode(c) ==
  [type |-> "wrapError", StatusCode |-> c, Unwrap |-> ErrUnexpectedStatusCode]

\* Get of repositories.go, from "if err != nil" on.
GetSwitchEarlier(r) ==
  IF r.err # Nil THEN Return(Nil, r.err)
  ELSE CASE r.StatusCode = StatusOK -> Return(Ptr(r.Result), Nil)
         [] r.StatusCode = StatusNotFound -> Return(Nil, Ptr(ErrRepoNotFound))
         [] OTHER -> Return(Nil, Ptr(WrapUnexpectedStatusCode(r.StatusCode)))

\* Add of repositories.go, from "if err != nil" on.
AddSwitchEarlier(r) ==
  IF r.err # Nil THEN Return(Nil, r.err)
  ELSE CASE r.StatusCode = StatusCreated -> Return(Ptr(r.Result), Nil)
         [] r.StatusCode = StatusUnprocessableEntity ->
              Return(Nil, Ptr(ErrUnprocessableEntity))
         [] OTHER -> Return(Nil, Ptr(WrapUnexpectedStatusCode(r.StatusCode)))

\* Mutant: 201 is taken for a success too.
UpdateSwitchEarlierAcceptingCreated(r) ==
  IF r.err # Nil THEN Return(Nil, r.err)
  ELSE CASE r.StatusCode \in {StatusOK, StatusCreated} -> Return(Ptr(r.Result), Nil)
         [] r.StatusCode = StatusUnprocessableEntity ->
              Return(Nil, Ptr(ErrUnprocessableEntity))
         [] OTHER -> Return(Nil, Ptr(WrapUnexpectedStatusCode(r.StatusCode)))

\* Update of repositories.go, from "if err != nil" on.
UpdateSwitchEarlier(r) ==
  IF r.err # Nil THEN Return(Nil, r.err)
  ELSE CASE r.StatusCode = StatusOK -> Return(Ptr(r.Result), Nil)
         [] r.StatusCode = StatusUnprocessableEntity ->
              Return(Nil, Ptr(ErrUnprocessableEntity))
         [] OTHER -> Return(Nil, Ptr(WrapUnexpectedStatusCode(r.StatusCode)))

\* The request of a Get of repositories.go returns and Get returns.
GetReturnEarlier(c, Responses) ==
  /\ pc[c] = "sent"
  /\ call[c].op = "Get"
  /\ \E r \in Outcomes(requests[c][Len(requests[c])], Responses) :
       Finish(c, r, GetSwitchEarlier(r))

AddReturnEarlier(c, Responses) ==
  /\ pc[c] = "sent"
  /\ call[c].op = "Add"
  /\ \E r \in Outcomes(requests[c][Len(requests[c])], Responses) :
       Finish(c, r, AddSwitchEarlier(r))

UpdateReturnEarlier(c, Responses) ==
  /\ pc[c] = "sent"
  /\ call[c].op = "Update"
  /\ \E r \in Outcomes(requests[c][Len(requests[c])], Responses) :
       Finish(c, r, UpdateSwitchEarlier(r))

(* ------------------------------- inputs --------------------------------- *)

Services == {"github"}
RepoNames == {"org/repo"}

\* A *RepositoryConfig argument.
Config(svc, name, comment, send, threshold, change) ==
  Ptr([Service |-> svc, Name |-> name,
       CommentOnPullRequests |-> comment, SendBuildStatus |-> send,
       CommitStatusFailThreshold |-> threshold,
       CommitStatusFailChangeThreshold |-> change])

OptBools == {Nil, Ptr(FALSE), Ptr(TRUE)}
OptNumbers == {Nil} \cup {Ptr(n) : n \in Numbers}

\* Every config over the inputs, and the nil pointer.
AllConfigs ==
  {Nil} \cup
  {Config(svc, name, comment, send, threshold, change) :
     svc \in Services, name \in RepoNames, comment \in OptBools, send \in OptBools,
     threshold \in OptNumbers, change \in OptNumbers}

\* A config with only service and name set, and one with every field set.
FewConfigs ==
  {Config("github", "org/repo", Nil, Nil, Nil, Nil),
   Config("github", "org/repo", Ptr(FALSE), Ptr(TRUE), Ptr(0), Ptr(MaxThreshold))}

(* ------------------------- what servers send ---------------------------- *)

Absent == "<absent>"

\* A string value for each string field.
SampleString(key) ==
  CASE key = "name" -> "org/repo"
    [] key = "service" -> "github"
    [] key = "token" -> "t0k3n"
    [] key = "created_at" -> "2020-01-01"
    [] key = "updated_at" -> "2020-02-02"

\* The JSON values a server may send for a field.
JSONValues(f) ==
  CASE f.kind = "string" -> {SampleString(f.key)}
    [] f.kind = "int" -> {NumTok(n) : n \in Numbers}
    [] f.kind = "bool" -> BoolToks
    [] f.kind = "*bool" -> BoolToks \cup {"null"}
    [] f.kind = "*float64" -> {NumTok(n) : n \in Numbers} \cup {"null"}

RECURSIVE RenderFrom(_, _)
RenderFrom(obj, i) ==
  IF i > Len(Repository) THEN <<>>
  ELSE LET key == Repository[i].key
       IN  (IF obj[key] = Absent THEN <<>> ELSE <<key, obj[key]>>) \o RenderFrom(obj, i + 1)

\* The body of a JSON object whose members are the keys obj does not map
\* to Absent.
Render(obj) == <<"{">> \o RenderFrom(obj, 1) \o <<"}">>

Keys == {Repository[i].key : i \in 1..Len(Repository)}
KeyField(key) == Repository[CHOOSE i \in 1..Len(Repository) : Repository[i].key = key]
OptionalKeys == {k \in Keys : KeyField(k).kind \in {"*bool", "*float64"}}
NameKeys == {"service", "name"}

\* The optional members of an object: each missing, null or a value.
OptionalMembers ==
  {opt \in [OptionalKeys -> {Absent, "null"} \cup BoolToks \cup {NumTok(n) : n \in Numbers}] :
     \A k \in OptionalKeys : opt[k] # Absent => opt[k] \in JSONValues(KeyField(k))}

\* The other members of an object: none, service and name only, or all.
OtherMembers ==
  {[k \in Keys \ OptionalKeys |-> Absent],
   [k \in Keys \ OptionalKeys |-> IF k \in NameKeys THEN SampleString(k) ELSE Absent]}
  \cup
  {[k \in Keys \ OptionalKeys |->
      CASE k = "id" -> id
        [] k = "has_badge" -> badge
        [] OTHER -> SampleString(k)] :
     id \in JSONValues(KeyField("id")), badge \in BoolToks}

ServerObjects ==
  {[k \in Keys |-> IF k \in OptionalKeys THEN opt[k] ELSE other[k]] :
     opt \in OptionalMembers, other \in OtherMembers}

AllJSONBodies == {Render(obj) : obj \in ServerObjects}

\* Two JSON objects, two bodies that are not the JSON of a record, and three
\* texts.
FewBodies ==
  {<<"{", "service", "github", "name", "org/repo", "}">>,
   <<"{", "id", "1", "name", "org/repo", "service", "github",
     "comment_on_pull_requests", "false", "send_build_status", "true",
     "commit_status_fail_threshold", "0", "commit_status_fail_change_threshold", "1",
     "has_badge", "true", "token", "t0k3n", "}">>,
   <<"{", "name">>,
   <<"{", "send_build_status", "0", "}">>,
   <<>>,
   <<"Name", "has", "already", "been", "taken">>,
   <<"Service", "is", "invalid">>}

ContentTypes == {JSONType, PlainType}

\* Every status with every text, and with the few bodies in both content
\* types.
TextResponses ==
  {ServerResponse(s, JSONType, b) : s \in StatusCodes, b \in TextBodies}
  \cup {ServerResponse(s, ct, b) : s \in StatusCodes, ct \in ContentTypes, b \in FewBodies}

\* Every status with the few bodies.
FewResponses ==
  {ServerResponse(s, ct, b) : s \in StatusCodes, ct \in ContentTypes, b \in FewBodies}

\* The success statuses and 404 with every JSON object.
JSONResponses ==
  {ServerResponse(s, JSONType, b) :
     s \in {StatusOK, StatusCreated, StatusNotFound}, b \in AllJSONBodies}

(* --------------------------- specifications ----------------------------- *)

\* One caller; the responses are texts of every shape.
Solo == {1}

NextText ==
  \E c \in Solo :
    \/ Get(c, Services, RepoNames)
    \/ Add(c, FewConfigs)
    \/ Update(c, Services, RepoNames, FewConfigs)
    \/ GetReturn(c, TextResponses)
    \/ AddReturn(c, TextResponses)
    \/ UpdateReturn(c, TextResponses)
    \/ Resume(c)

Spec == Init /\ [][NextText]_vars

\* One caller; the configs sent are of every shape.
NextRequest ==
  \E c \in Solo :
    \/ Get(c, Services, RepoNames)
    \/ Add(c, AllConfigs)
    \/ Update(c, Services, RepoNames, AllConfigs)
    \/ GetReturn(c, FewResponses)
    \/ AddReturn(c, FewResponses)
    \/ UpdateReturn(c, FewResponses)
    \/ Resume(c)

SpecRequest == Init /\ [][NextRequest]_vars

\* One caller; the responses are JSON objects of every shape.
NextResponse ==
  \E c \in Solo :
    \/ Get(c, Services, RepoNames)
    \/ Add(c, FewConfigs)
    \/ Update(c, Services, RepoNames, FewConfigs)
    \/ GetReturn(c, JSONResponses)
    \/ AddReturn(c, JSONResponses)
    \/ UpdateReturn(c, JSONResponses)
    \/ Resume(c)

SpecResponse == Init /\ [][NextResponse]_vars

\* Every caller; each status with one JSON object and one text.
ConcurrentResponses ==
  {ServerResponse(s, JSONType, b) :
     s \in StatusCodes,
     b \in {<<"{", "service", "github", "name", "org/repo", "}">>,
            <<"Name", "has", "already", "been", "taken">>}}

OneConfig == {Config("github", "org/repo", Nil, Ptr(FALSE), Nil, Ptr(0))}

NextConcurrent ==
  \E c \in Callers :
    \/ Get(c, Services, RepoNames)
    \/ Add(c, OneConfig)
    \/ Update(c, Services, RepoNames, OneConfig)
    \/ GetReturn(c, ConcurrentResponses)
    \/ AddReturn(c, ConcurrentResponses)
    \/ UpdateReturn(c, ConcurrentResponses)
    \/ Resume(c)

SpecConcurrent == Init /\ [][NextConcurrent]_vars

\* One caller of the sentinel-only version (its Get, Add and Update issue
\* the same requests); the responses are texts of every shape.
NextEarlier ==
  \E c \in Solo :
    \/ Get(c, Services, RepoNames)
    \/ Add(c, FewConfigs)
    \/ Update(c, Services, RepoNames, FewConfigs)
    \/ GetReturnEarlier(c, TextResponses)
    \/ AddReturnEarlier(c, TextResponses)
    \/ UpdateReturnEarlier(c, TextResponses)
    \/ Resume(c)

SpecEarlier == Init /\ [][NextEarlier]_vars

(* ------------------------------ properties ------------------------------ *)

Returned(c) == pc[c] = "done"
Op(c) == call[c].op

\* The transport gave c's call a response with this status.
Answered(c, status) ==
  Returned(c) /\ resp[c].err = Nil /\ resp[c].StatusCode = status

\* The call returned no value and exactly this error.
FailedWith(c, e) == ret[c].val = Nil /\ ret[c].err = <<e>>

SaysNameTaken(b) ==
  \E pre \in 0..Len(b) :
    /\ pre + 4 <= Len(b)
    /\ b[pre + 1] = "has"
    /\ b[pre + 2] = "already"
    /\ b[pre + 3] = "been"
    /\ b[pre + 4] = "taken"

Handled(o) ==
  CASE o = "Get" -> {200, 404}
    [] o = "Add" -> {201, 422}
    [] o = "Update" -> {200, 404, 422}

RecordOrError ==
  \A c \in Callers :
    Returned(c) =>
      /\ ret[c].returned
      /\ \/ Len(ret[c].val) = 1 /\ ret[c].err = Nil
         \/ ret[c].val = Nil /\ Len(ret[c].err) = 1

RecordReached ==
  \E c \in Callers :
    /\ Answered(c, 200)
    /\ Op(c) = "Get"
    /\ ret[c].err = Nil
    /\ ret[c].val[1].Name = "org/repo"

\* C6: when the transport fails, the call returns that very error and no
\* record.
TransportErrorIsPropagated ==
  \A c \in Callers :
    Returned(c) /\ resp[c].err # Nil =>
      /\ ret[c].val = Nil
      /\ ret[c].err = resp[c].err
      /\ ret[c].err[1].type = "transport"

TransportErrorReached ==
  \E c \in Callers :
    /\ Returned(c)
    /\ Op(c) = "Add"
    /\ resp[c].err = <<TransportError("connection refused")>>

\* The status on which an operation returns a record.
Success(o) == IF o = "Add" THEN 201 ELSE 200

\* The JSON object in body b maps key to the value tok.
Member(b, key, tok) ==
  \E i \in 2..(Len(b) - 2) : i % 2 = 0 /\ b[i] = key /\ b[i + 1] = tok

Missing(b, key) == \A i \in 2..(Len(b) - 2) : i % 2 = 0 => b[i] # key

\* The Go value that a JSON value other than null stands for.
Meant(kind, tok) ==
  CASE kind = "string" -> tok
    [] kind = "int" -> ParseNum(tok)
    [] kind = "bool" -> tok = "true"
    [] kind = "*bool" -> <<tok = "true">>
    [] kind = "*float64" -> <<ParseNum(tok)>>

\* C7: on the success status with a JSON body, every field of the record
\* returned has the value of its member in the JSON received; an optional
\* field whose member is missing is nil, and one whose member is false or 0
\* points to false or 0.
DecodedRecordMatchesJSON ==
  \A c \in Callers :
    Answered(c, Success(Op(c))) /\ resp[c].ContentType = JSONType =>
      /\ ret[c].err = Nil
      /\ Len(ret[c].val) = 1
      /\ LET fields == IF Op(c) = "Get" THEN Repository ELSE RepositoryConfig
             body   == resp[c].Body
             record == ret[c].val[1]
         IN  /\ DOMAIN record = {fields[i].go : i \in 1..Len(fields)}
             /\ \A i \in 1..Len(fields) :
                  LET f == fields[i] IN
                  /\ Missing(body, f.key) =>
                       record[f.go] = (CASE f.kind = "string" -> ""
                                         [] f.kind = "int" -> 0
                                         [] f.kind = "bool" -> FALSE
                                         [] OTHER -> <<>>)
                  /\ \A tok \in (BoolToks \cup NumToks \cup {"org/repo", "github", "t0k3n", "2020-01-01", "2020-02-02"}) :
                       Member(body, f.key, tok) => record[f.go] = Meant(f.kind, tok)

FalseAndMissingDecodedReached ==
  \E c \in Callers :
    /\ Answered(c, 201)
    /\ Op(c) = "Add"
    /\ resp[c].ContentType = JSONType
    /\ Member(resp[c].Body, "comment_on_pull_requests", "false")
    /\ Missing(resp[c].Body, "send_build_status")
    /\ Member(resp[c].Body, "commit_status_fail_threshold", "0")
    /\ Missing(resp[c].Body, "commit_status_fail_change_threshold")
    /\ ret[c].val[1].CommentOnPullRequests = <<FALSE>>
    /\ ret[c].val[1].SendBuildStatus = <<>>
    /\ ret[c].val[1].CommitStatusFailThreshold = <<0>>
    /\ ret[c].val[1].CommitStatusFailChangeThreshold = <<>>

\* The optional fields of a config, with their keys.
OptionalFields ==
  {<<"CommentOnPullRequests", "comment_on_pull_requests", "bool">>,
   <<"SendBuildStatus", "send_build_status", "bool">>,
   <<"CommitStatusFailThreshold", "commit_status_fail_threshold", "number">>,
   <<"CommitStatusFailChangeThreshold", "commit_status_fail_change_threshold", "number">>}

\* The JSON of a value that an optional field points to.
Written(type, v) ==
  IF type = "bool" THEN (IF v THEN "true" ELSE "false")
  ELSE Digits[v + 1]

\* The keys and the values of the object that b holds under "repo".
RepoMember(b, key, tok) ==
  \E i \in 4..(Len(b) - 3) : i % 2 = 0 /\ b[i] = key /\ b[i + 1] = tok

RepoKeys(b) == {b[i] : i \in {j \in 4..(Len(b) - 3) : j % 2 = 0}}

\* C8: the body of a POST or PUT is the config under the single key "repo";
\* an optional field that is nil has no member in it, one that points to
\* false or 0 has its member, and a config with only service and name set
\* has exactly these two members.
UnsetFieldsAreOmitted ==
  \A c \in Callers :
    pc[c] \in {"sent", "done"} /\ Op(c) \in {"Add", "Update"} /\ call[c].data # Nil =>
      LET b    == requests[c][1].Body
          data == call[c].data[1]
      IN  /\ Len(b) >= 8
          /\ <<b[1], b[2], b[3]>> = <<"{", "repo", "{">>
          /\ <<b[Len(b) - 1], b[Len(b)]>> = <<"}", "}">>
          /\ Len(b) % 2 = 1
          /\ \A i \in 4..(Len(b) - 2) : b[i] \notin {"{", "}"}
          /\ RepoMember(b, "service", data.Service)
          /\ RepoMember(b, "name", data.Name)
          /\ \A f \in OptionalFields :
               /\ data[f[1]] = <<>> => f[2] \notin RepoKeys(b)
               /\ data[f[1]] # <<>> => /\ RepoMember(b, f[2], Written(f[3], data[f[1]][1]))
                                       /\ Cardinality({i \in 4..(Len(b) - 3) : i % 2 = 0 /\ b[i] = f[2]}) = 1
          /\ (\A f \in OptionalFields : data[f[1]] = <<>>) => RepoKeys(b) = {"service", "name"}
          /\ RepoKeys(b) \subseteq {"service", "name"} \cup {f[2] : f \in OptionalFields}

FalseSentAndUnsetOmittedReached ==
  \E c \in Callers :
    /\ pc[c] = "sent"
    /\ Op(c) = "Update"
    /\ call[c].data # Nil
    /\ call[c].data[1].CommentOnPullRequests = <<FALSE>>
    /\ call[c].data[1].SendBuildStatus = <<>>
    /\ call[c].data[1].CommitStatusFailThreshold = <<>>
    /\ call[c].data[1].CommitStatusFailChangeThreshold = <<0>>
    /\ requests[c][1].Body =
         <<"{", "repo", "{", "service", "github", "name", "org/repo",
           "comment_on_pull_requests", "false",
           "commit_status_fail_change_threshold", "0", "}", "}">>

\* The HTTP method of an operation.
MethodOf(o) ==
  CASE o = "Get" -> "GET"
    [] o = "Add" -> "POST"
    [] o = "Update" -> "PUT"

\* C9: a call issues exactly one request, a GET, POST or PUT, and no other
\* one after a failed response or a transport failure.
OneRequestPerCall ==
  \A c \in Callers :
    /\ pc[c] = "idle" => requests[c] = <<>>
    /\ pc[c] \in {"sent", "done"} =>
         /\ Len(requests[c]) = 1
         /\ requests[c][1].Method = MethodOf(Op(c))

FailedCallReached ==
  \E c \in Callers :
    /\ Returned(c)
    /\ Op(c) = "Get"
    /\ resp[c].err # Nil
    /\ ret[c].err = resp[c].err
    /\ Len(requests[c]) = 1

\* What an operation returns for what the transport gave it.
Alone(o, r) ==
  CASE o = "Get" -> GetSwitch(r)
    [] o = "Add" -> AddSwitch(r)
    [] o = "Update" -> UpdateSwitch(r)

\* C10: the client stays as NewClient made it, and what a call returned is
\* what its operation returns alone for its own response, whatever the
\* other callers do meanwhile.
CallsAreIndependent ==
  /\ client = [HostURL |-> "https://coveralls.io",
               Header |-> [Accept |-> "application/json",
                           Authorization |-> <<"token", "secret">>]]
  /\ \A c \in Callers :
       /\ Returned(c) => ret[c] = Alone(Op(c), resp[c])
       /\ pc[c] \in {"sent", "done"} => requests[c][1].Header = client.Header
       /\ pc[c] \in {"sent", "done"} => requests[c][1].URL[1] = client.HostURL

TwoCallsReturnedReached ==
  \E c \in Callers, d \in Callers :
    /\ c # d
    /\ Returned(c) /\ Returned(d)
    /\ Op(c) = "Get" /\ Op(d) = "Add"
    /\ resp[c].err = Nil /\ resp[c].StatusCode = 200
    /\ resp[d].err = Nil /\ resp[d].StatusCode = 422
    /\ ret[c].err = Nil
    /\ ret[d].err = <<ErrNameIsTaken>>

\* C11: for every operation and every outcome of its request, the
\* sentinel-only version returns a record exactly when the later version
\* does, and the same record; the errors of the two differ only for Update
\* on 404, for Add and Update on 422 and for an unexpected status.
VersionsAgree ==
  \A c \in Callers :
    Returned(c) =>
      LET earlier == ret[c]
          later   == Alone(Op(c), resp[c])
      IN  /\ (earlier.err = <<>>) <=> (later.err = <<>>)
          /\ earlier.val = later.val
          /\ earlier.err # later.err =>
               /\ resp[c].err = <<>>
               /\ \/ Op(c) = "Update" /\ resp[c].StatusCode = 404
                  \/ Op(c) \in {"Add", "Update"} /\ resp[c].StatusCode = 422
                  \/ resp[c].StatusCode \notin Handled(Op(c))

VersionsDifferOnUpdateReached ==
  \E c \in Callers :
    /\ Answered(c, 404)
    /\ Op(c) = "Update"
    /\ ret[c].val = <<>>
    /\ ret[c].err = <<[type |-> "wrapError", StatusCode |-> 404,
                       Unwrap |-> [type |-> "ErrUnexpectedStatusCode"]]>>
    /\ Alone(Op(c), resp[c]).err = <<[type |-> "ErrRepoNotFound"]>>

====
